---- MODULE Spec2Model ----
(***************************************************************************)
(* Label printing service (src/app.js, second revision, lines 117-413).    *)
(*                                                                         *)
(* JavaScript strings are sequences of one-character strings, so that      *)
(* length, substring, concatenation, trimming and comparison are computed. *)
(* A JavaScript value is a record [t, v]: t is its type tag and v the      *)
(* characters of a string, the decimal digits of a number, the elements    *)
(* of an array or the fields of an object.                                 *)
(***************************************************************************)
EXTENDS Integers, Sequences, FiniteSets, TLC

VARIABLES
    text,          \* splitText: argument text
    maxLength,     \* splitText: argument maxLength
    lines,         \* splitText: the returned array
    splitDone,     \* splitText has returned
    patientObj,    \* usePrinter: the payload handed to printLabel
    labelRun,      \* usePrinter: the values it computed, in order
    labelDone,     \* usePrinter has run
    PRINTER_NAME,  \* the configured default printer name
    received,      \* the POST / request has arrived
    query,         \* req.query of the request
    responses,     \* the responses sent for the request, in order
    detect,        \* the getPrinters call of findZD888Printer: "none",
                   \* "pending" (callback outstanding) or "done"
    jobStatus,     \* the state of each print job handed to printDirect
    enumerated,    \* what getPrinters has handed to the callback of
                   \* findZD888Printer: empty until it calls back
    crashed        \* an uncaught exception has ended the process

splitVars == <<text, maxLength, lines, splitDone>>

labelVars == <<patientObj, labelRun, labelDone>>

serverVars ==
    <<PRINTER_NAME, received, query, responses, detect, jobStatus, enumerated,
      crashed>>

vars ==
    <<text, maxLength, lines, splitDone, patientObj, labelRun, labelDone,
      PRINTER_NAME, received, query, responses, detect, jobStatus, enumerated,
      crashed>>

----------------------------------------------------------------------------
(* Bounds of the model. *)

\* longest text handed to splitText, besides the scenario text
MaxLen == 4
\* largest maxLength handed to splitText, besides the widths the code uses
MaxWidth == 3
\* longest request list handed to usePrinter in the grouping runs
MaxRequests == 3
\* longest request list of a payload posted to the server
MaxLabRequests == 2

----------------------------------------------------------------------------
(* Strings. *)

Min(a, b) == IF a < b THEN a ELSE b

\* String.prototype.substring(start, end) for 0 <= start <= end: end is
\* clamped to the length; the result is the characters start .. end-1
\* (0-based), i.e. start+1 .. end (1-based).
Substring(s, start, end) == SubSeq(s, start + 1, Min(end, Len(s)))

RECURSIVE Concat(_)
\* the strings of a sequence joined without separator
Concat(ss) == IF ss = <<>> THEN <<>> ELSE Head(ss) \o Concat(Tail(ss))

\* every string over alphabet A of length at most n
StringsUpTo(A, n) == UNION {[1..k -> A] : k \in 0..n}

----------------------------------------------------------------------------
(* splitText, src/app.js:154-160. *)

RECURSIVE SplitLoop(_, _, _, _)
\* the for loop at offset i with the chunks pushed so far
SplitLoop(s, w, i, result) ==
    IF i < Len(s)
    THEN SplitLoop(s, w, i + w, Append(result, Substring(s, i, i + w)))
    ELSE result

\* faulty variant: the loop steps one character too far and loses a character
\* between chunks
RECURSIVE SplitLoopSkip(_, _, _, _)
SplitLoopSkip(s, w, i, result) ==
    IF i < Len(s)
    THEN SplitLoopSkip(s, w, i + w + 1, Append(result, Substring(s, i, i + w)))
    ELSE result

splitTextSkip(s, w) == SplitLoopSkip(s, w, 0, <<>>)

\* faulty variant: an empty text is given one empty line
splitTextPad(s, w) ==
    IF s = <<>> THEN << <<>> >> ELSE SplitLoop(s, w, 0, <<>>)

splitText(s, w) == SplitLoop(s, w, 0, <<>>)

----------------------------------------------------------------------------
(* JavaScript values. *)

Undef == [t |-> "undefined", v |-> <<>>]
Null == [t |-> "null", v |-> <<>>]
Str(s) == [t |-> "string", v |-> s]
Num(digits) == [t |-> "number", v |-> digits]
Arr(elems) == [t |-> "array", v |-> elems]
Obj(fields) == [t |-> "object", v |-> fields]

\* ToBoolean: undefined, null, 0 and "" are falsy; non-empty strings,
\* non-zero numbers, arrays (the empty one too) and objects are truthy
Truthy(x) ==
    CASE x.t = "undefined" -> FALSE
      [] x.t = "null" -> FALSE
      [] x.t = "number" -> x.v # <<"0">>
      [] x.t = "string" -> x.v # <<>>
      [] OTHER -> TRUE

\* a || b
Or(a, b) == IF Truthy(a) THEN a ELSE b

\* x.key for a value x that is not undefined or null (the code reads a
\* property only of values it has tested, of the payload and of the elements
\* of the request list): a field an object lacks, and any field of a string
\* or a number, is undefined
Get(x, key) ==
    IF x.t = "object" /\ key \in DOMAIN x.v THEN x.v[key] ELSE Undef

\* String(x) for a scalar
ToStr(x) ==
    CASE x.t = "undefined" -> <<"u", "n", "d", "e", "f", "i", "n", "e", "d">>
      [] x.t = "null" -> <<"n", "u", "l", "l">>
      [] OTHER -> x.v

\* Array.isArray(x)
IsArray(x) == x.t = "array"

RECURSIVE Join(_, _)
\* Array.prototype.join(sep) of an array of truthy scalars
Join(xs, sep) ==
    IF xs = <<>> THEN <<>>
    ELSE IF Len(xs) = 1 THEN ToStr(xs[1])
    ELSE ToStr(xs[1]) \o sep \o Join(Tail(xs), sep)

RECURSIVE TrimLeft(_)
TrimLeft(s) == IF s # <<>> /\ Head(s) = " " THEN TrimLeft(Tail(s)) ELSE s

RECURSIVE TrimRight(_)
TrimRight(s) ==
    IF s # <<>> /\ s[Len(s)] = " " THEN TrimRight(SubSeq(s, 1, Len(s) - 1)) ELSE s

\* String.prototype.trim()
Trim(s) == TrimRight(TrimLeft(s))

----------------------------------------------------------------------------
(* Literals of the code. *)

ZebraName == <<"z", "e", "b", "r", "a">>
NA == <<"N", "/", "A">>
Zero == <<"0">>
UnknownTest == <<"U", "n", "k", "n", "o", "w", "n", " ", "T", "e", "s", "t">>
Separator == <<" ", "-", " ">>
ContainerPrefix == <<"C", "o", "n", "t", "a", "i", "n", "e", "r", ":", " ">>

----------------------------------------------------------------------------
(* The ZPL primitives, src/app.js:165-193.  A primitive is kept as its      *)
(* command and arguments; fd is the field data written between ^FD and ^FS. *)

\* the three replace calls of createZPLText, one character at a time:
\* a backslash is doubled, ^ and ~ get a backslash in front
EscapeChar(c) ==
    CASE c = "\\" -> <<"\\", "\\">>
      [] c = "^" -> <<"\\", "^">>
      [] c = "~" -> <<"\\", "~">>
      [] OTHER -> <<c>>

RECURSIVE Escape(_)
Escape(s) == IF s = <<>> THEN <<>> ELSE EscapeChar(Head(s)) \o Escape(Tail(s))

\* createZPLText(x, y, text, fontHeight, fontWidth, "N") for a string text
createZPLText(x, y, str, fontHeight, fontWidth) ==
    [cmd |-> "text", x |-> x, y |-> y, h |-> fontHeight, w |-> fontWidth,
     fd |-> Escape(str)]

\* text.replace is a function only of a string: createZPLText raises a
\* TypeError for any other argument
TextThrows(value) == value.t # "string"

\* createZPLBarcode(x, y, height, data, "Y"): the interpretation line is on
createZPLBarcode(x, y, height, data) ==
    [cmd |-> "barcode", x |-> x, y |-> y, h |-> height, w |-> 0, fd |-> data]

\* createZPLBox(x, y, width, height, lineThickness)
createZPLBox(x, y, width, height, lineThickness) ==
    [cmd |-> "box", x |-> x, y |-> y, h |-> height, w |-> width, fd |-> <<>>]

----------------------------------------------------------------------------
(* usePrinter, src/app.js:196-333: field resolution. *)

\* const patient = patientObj.patient || patientObj
PatientOf(po) == Or(Get(po, "patient"), po)

\* const visitNo = patient.visit_number || patientObj.visit_number
\*                 || patientObj.visit_id
VisitNoOf(po) ==
    Or(Or(Get(PatientOf(po), "visit_number"), Get(po, "visit_number")),
       Get(po, "visit_id"))

\* const pid = patientObj.id || patientObj.patient_id || patient.id
PidOf(po) ==
    Or(Or(Get(po, "id"), Get(po, "patient_id")), Get(PatientOf(po), "id"))

\* const labRequests = patientObj.lab_requests || patient.lab_requests
\*                     || patientObj.labRequests || patient.labRequests || []
LabRequestsOf(po) ==
    Or(Or(Or(Or(Get(po, "lab_requests"), Get(PatientOf(po), "lab_requests")),
             Get(po, "labRequests")),
          Get(PatientOf(po), "labRequests")),
       Arr(<<>>))

\* the test of line 208: not an array, or an empty one
NoLabRequests(lr) == ~IsArray(lr) \/ Len(lr.v) = 0

\* const mainTest = req.main_test || req.mainTest
MainTestOf(req) == Or(Get(req, "main_test"), Get(req, "mainTest"))

\* the map callback of lines 220-226
ContainerOf(req) ==
    LET mainTest == MainTestOf(req)
    IN  IF Truthy(mainTest) /\ Truthy(Get(mainTest, "container"))
        THEN Get(mainTest, "container")
        ELSE Null

\* faulty variant: the filter keeps every container that is not null, with or
\* without an id
KeepContainerAny(container) == container.t # "null"

\* the filter callback of line 227: container !== null && container.id
KeepContainer(container) ==
    container.t # "null" /\ Truthy(Get(container, "id"))

\* const containers = labRequests.map(...).filter(...)
Containers(labRequests) ==
    SelectSeq([i \in 1..Len(labRequests) |-> ContainerOf(labRequests[i])],
              KeepContainer)

\* self.findIndex(c => c.id === id), 1-based; 0 for JavaScript's -1
FindIndex(self, id) ==
    IF \E i \in 1..Len(self) : Get(self[i], "id") = id
    THEN CHOOSE i \in 1..Len(self) :
            /\ Get(self[i], "id") = id
            /\ \A j \in 1..(i - 1) : Get(self[j], "id") # id
    ELSE 0

RECURSIVE FilterFirst(_, _)
\* the elements of self from index i on whose index is the first with
\* their id
FilterFirst(self, i) ==
    IF i > Len(self) THEN <<>>
    ELSE IF i = FindIndex(self, Get(self[i], "id"))
         THEN <<self[i]>> \o FilterFirst(self, i + 1)
         ELSE FilterFirst(self, i + 1)

\* faulty variant: no removal of duplicates
UniqueContainersAll(containers) == containers

\* const uniqueContainers = containers.filter((container, index, self) =>
\*     index === self.findIndex(c => c.id === container.id))
UniqueContainers(containers) == FilterFirst(containers, 1)

\* the name of a request's test, lines 251-253
TestNameOf(req) ==
    LET mainTest == MainTestOf(req)
    IN  Or(Or(Or(Or(Get(mainTest, "main_test_name"), Get(mainTest, "name")),
                 Get(req, "name")),
              Get(req, "test_name")),
           Str(UnknownTest))

\* the filter callback of lines 246-249
InContainer(req, container) ==
    LET mainTest == MainTestOf(req)
    IN  /\ Truthy(mainTest)
        /\ Truthy(Get(mainTest, "container"))
        /\ Get(Get(mainTest, "container"), "id") = Get(container, "id")

\* faulty variant: the names of a container come out last request first
TestsReversed(labRequests, container) ==
    LET sel == SelectSeq(labRequests, LAMBDA req : InContainer(req, container))
    IN  [i \in 1..Len(sel) |-> TestNameOf(sel[Len(sel) + 1 - i])]

\* const testsAccordingToContainer = labRequests.filter(...).map(...)
TestsAccordingToContainer(labRequests, container) ==
    LET selected == SelectSeq(labRequests, LAMBDA req : InContainer(req, container))
    IN  [i \in 1..Len(selected) |-> TestNameOf(selected[i])]

----------------------------------------------------------------------------
(* usePrinter, src/app.js:243-332: one label per container. *)

\* the widths the callers pass to splitText: 25 in usePrinter, 20 in the
\* first revision
LineWidth == 25
OldLineWidth == 20

\* lines.forEach of lines 296-300: a text primitive for every line that is
\* not empty once trimmed, at the height of its index
RECURSIVE LineTexts(_, _)
LineTexts(ls, i) ==
    IF i > Len(ls) THEN <<>>
    ELSE IF Trim(ls[i]) # <<>>
         THEN <<createZPLText(20, 150 + (i - 1) * 25, Trim(ls[i]), 25, 20)>>
              \o LineTexts(ls, i + 1)
         ELSE LineTexts(ls, i + 1)

\* the text of the header primitive: visitNo || "N/A"
HeaderValue(po) == Or(VisitNoOf(po), Str(NA))

\* const barcodeData = String(pid || visitNo || "0")
BarcodeData(po) == ToStr(Or(Or(PidOf(po), VisitNoOf(po)), Str(Zero)))

\* const containerName = container.container_name || container.name
ContainerNameOf(container) ==
    Or(Get(container, "container_name"), Get(container, "name"))

\* zplCommand of lines 274-308, for a header value that is a string
ZplCommand(po, container, tests) ==
    LET ls == splitText(Join(tests, Separator), LineWidth)
        containerName == ContainerNameOf(container)
    IN  [page |-> [mode |-> "T", pw |-> 508, ll |-> 312, speed |-> "C", md |-> 15],
         prims |->
            <<createZPLBox(10, 5, 488, 302, 2),
              createZPLText(20, 15, HeaderValue(po).v, 40, 30),
              createZPLBarcode(200, 60, 80, BarcodeData(po))>>
            \o LineTexts(ls, 1)
            \o (IF Truthy(containerName)
                THEN <<createZPLText(20, 150 + Len(ls) * 25 + 10,
                                     ContainerPrefix \o ToStr(containerName), 20, 18)>>
                ELSE <<>>)]

\* the argument of printDirect, lines 314-331; container is the one the
\* callbacks close over
PrintJob(po, container, tests, printerName) ==
    [data |-> ZplCommand(po, container, tests),
     printer |-> printerName,
     type |-> "RAW",
     container |-> Get(container, "id")]

RECURSIVE ForEachContainer(_, _, _, _, _)
\* uniqueContainers.forEach from index i on; run is the record of what has
\* been computed.  The iteration that raises ends the loop: the names of its
\* container were collected, its printDirect was not called.
ForEachContainer(po, printerName, uniqueContainers, i, run) ==
    IF i > Len(uniqueContainers) THEN run
    ELSE LET container == uniqueContainers[i]
             tests == TestsAccordingToContainer(run.labRequests.v, container)
             grouped == Append(run.groups, [container |-> container, tests |-> tests])
         IN  IF TextThrows(HeaderValue(po))
             THEN [run EXCEPT !.groups = grouped, !.exit = "threw"]
             ELSE ForEachContainer(po, printerName, uniqueContainers, i + 1,
                      [run EXCEPT
                          !.groups = grouped,
                          !.jobs = Append(@, PrintJob(po, container, tests, printerName))])

\* nothing computed yet
NoRun ==
    [labRequests |-> Undef, containers |-> <<>>, uniqueContainers |-> <<>>,
     groups |-> <<>>, jobs |-> <<>>, exit |-> "none"]

\* usePrinter(printerName) on payload po: what it computed, the print jobs
\* it handed to printDirect in order, and how it ended: "noRequests" (return
\* of line 212), "noContainers" (return of line 238), "printed" (end of the
\* forEach) or "threw"
UsePrinter(po, printerName) ==
    LET labRequests == LabRequestsOf(po)
    IN  IF NoLabRequests(labRequests)
        THEN [NoRun EXCEPT !.labRequests = labRequests, !.exit = "noRequests"]
        ELSE LET containers == Containers(labRequests.v)
                 uniqueContainers == UniqueContainers(containers)
                 start == [NoRun EXCEPT !.labRequests = labRequests,
                                        !.containers = containers,
                                        !.uniqueContainers = uniqueContainers]
             IN  IF Len(uniqueContainers) = 0
                 THEN [start EXCEPT !.exit = "noContainers"]
                 ELSE ForEachContainer(po, printerName, uniqueContainers, 1,
                                       [start EXCEPT !.exit = "printed"])
----------------------------------------------------------------------------
(* findZD888Printer, src/app.js:130-152. *)

UpperCase ==
    <<"A", "B", "C", "D", "E", "F", "G", "H", "I", "J", "K", "L", "M",
      "N", "O", "P", "Q", "R", "S", "T", "U", "V", "W", "X", "Y", "Z">>
LowerCase ==
    <<"a", "b", "c", "d", "e", "f", "g", "h", "i", "j", "k", "l", "m",
      "n", "o", "p", "q", "r", "s", "t", "u", "v", "w", "x", "y", "z">>

\* String.prototype.toLowerCase()
ToLowerCase(s) ==
    [i \in 1..Len(s) |->
        IF \E k \in 1..Len(UpperCase) : UpperCase[k] = s[i]
        THEN LowerCase[CHOOSE k \in 1..Len(UpperCase) : UpperCase[k] = s[i]]
        ELSE s[i]]

\* String.prototype.includes(sub)
Includes(s, sub) ==
    \E i \in 1..(Len(s) - Len(sub) + 1) : SubSeq(s, i, i + Len(sub) - 1) = sub

ZD888 == <<"z", "d", "8", "8", "8">>

\* faulty variant: the names are compared as they are, without toLowerCase
IsZD888Exact(p) ==
    LET name == Get(p, "name").v
    IN  Includes(name, ZD888) \/ Includes(name, ZebraName) \/ name = ZebraName

\* the callback of printers.find, lines 137-141
IsZD888(p) ==
    LET name == ToLowerCase(Get(p, "name").v)
    IN  Includes(name, ZD888) \/ Includes(name, ZebraName) \/ name = ZebraName

\* the name findZD888Printer hands to its callback when getPrinters calls
\* back with (err, printers); default is PRINTER_NAME
FindZD888Printer(err, printers, default) ==
    IF Truthy(err) \/ ~Truthy(printers)
    THEN default
    ELSE IF \E i \in 1..Len(printers.v) : IsZD888(printers.v[i])
         THEN Get(printers.v[CHOOSE i \in 1..Len(printers.v) :
                        /\ IsZD888(printers.v[i])
                        /\ \A j \in 1..(i - 1) : ~IsZD888(printers.v[j])], "name")
         ELSE default

----------------------------------------------------------------------------
(* app.post("/"), src/app.js:360-386. *)

AutoDetecting ==
    <<"a", "u", "t", "o", "-", "d", "e", "t", "e", "c", "t", "i", "n", "g",
      " ", "Z", "D", "8", "8", "8", ".", ".", ".">>

\* res.status(400).json({status: 'error', message: 'No data received'})
NoDataResponse == [code |-> 400, status |-> "error", printer |-> Undef]

\* faulty variant: a payload without a usable request list is answered as a client
\* error
RespondStrict(exit, printerName) ==
    IF exit = "threw" THEN [code |-> 500, status |-> "error", printer |-> Undef]
    ELSE IF exit = "noRequests"
         THEN [code |-> 400, status |-> "error", printer |-> Undef]
         ELSE [code |-> 200, status |-> "success",
               printer |-> Or(printerName, Str(AutoDetecting))]

\* the response of the handler once printLabel has returned or raised: exit
\* is how usePrinter ended within the call of printLabel, "none" when it has
\* not run yet.  The catch answers 500, everything else is answered by
\* res.json({status: 'success', ...}).
Respond(exit, printerName) ==
    IF exit = "threw"
    THEN [code |-> 500, status |-> "error", printer |-> Undef]
    ELSE [code |-> 200, status |-> "success",
          printer |-> Or(printerName, Str(AutoDetecting))]

\* const printerName = data.printer_name || req.query.printer_name || null
PrinterOverride(data, q) ==
    Or(Or(Get(data, "printer_name"), Get(q, "printer_name")), Null)

----------------------------------------------------------------------------
(* Payloads. *)

V1 == <<"V", "1">>
V2 == <<"V", "^", "2">>
P1 == <<"P", "1">>
P2 == <<"P", "2">>
EDTA == <<"E", "D", "T", "A">>
SST == <<"S", "S", "T">>

\* containers: two separate objects with id 7, one with id 8, one with the
\* string "7", and containers whose id is 0, null or missing
Cont7 == Obj([id |-> Num(<<"7">>), container_name |-> Str(EDTA)])
Cont7Again == Obj([id |-> Num(<<"7">>)])
Cont8 == Obj([id |-> Num(<<"8">>), name |-> Str(SST)])
ContStr7 == Obj([id |-> Str(<<"7">>)])
ContZero == Obj([id |-> Num(Zero), name |-> Str(SST)])
ContNullId == Obj([id |-> Null])
ContNoId == Obj([name |-> Str(EDTA)])

\* a request {name, main_test: {container}}
Req(name, container) ==
    Obj([name |-> Str(name), main_test |-> Obj([container |-> container])])

\* the kinds of request of the grouping runs
ReqKinds ==
    {Req(<<"a">>, c) : c \in {Cont7, Cont7Again, Cont8}}
    \cup {Req(<<"b">>, c) : c \in {Cont7, Cont8}}
    \cup {Req(<<"a">>, c) : c \in {ContStr7, ContZero, ContNullId, ContNoId, Null}}
    \cup {Obj([name |-> Str(<<"a">>)]),
          Obj([test_name |-> Str(<<"b">>),
               mainTest |-> Obj([container |-> Cont8,
                                 main_test_name |-> Str(<<"c">>)])]),
          Obj([mainTest |-> Obj([container |-> Cont7])])}

\* every array of at most n requests
RequestLists(kinds, n) == UNION {[1..k -> kinds] : k \in 0..n}

\* payloads that vary the request list
GroupPayloads ==
    {Obj([visit_number |-> Str(V1), id |-> Str(P1), lab_requests |-> Arr(rs)]) :
        rs \in RequestLists(ReqKinds, MaxRequests)}

OneRequest == Arr(<<Req(<<"a">>, Cont7)>>)

\* payloads that vary the identifiers and where they are: flat, or nested
\* under patient
FlatPayloads ==
    {Obj([visit_number |-> vn, visit_id |-> vi, id |-> id, patient_id |-> pi,
          lab_requests |-> OneRequest]) :
        vn \in {Undef, Null, Str(<<>>), Str(V2), Num(Zero), Num(<<"5">>)},
        vi \in {Undef, Num(<<"9">>)},
        id \in {Undef, Null, Num(Zero), Str(P1)},
        pi \in {Undef, Str(P2)}}

NestedPayloads ==
    {Obj([visit_number |-> vn, visit_id |-> vi, id |-> id, patient_id |-> pi,
          patient |-> Obj([visit_number |-> pvn, id |-> pid,
                           lab_requests |-> OneRequest])]) :
        vn \in {Undef, Str(V2), Num(<<"5">>)},
        vi \in {Undef, Num(<<"9">>)},
        id \in {Undef, Null, Str(P1)},
        pi \in {Undef, Str(P2)},
        pvn \in {Undef, Null, Str(<<>>), Str(V1)},
        pid \in {Undef, Num(<<"3">>)}}

LabelPayloads == GroupPayloads \cup FlatPayloads \cup NestedPayloads

----------------------------------------------------------------------------
(* Specification SpecLabel: usePrinter applied to bounded payloads. *)

InitLabel ==
    /\ patientObj \in LabelPayloads
    /\ labelRun = NoRun
    /\ labelDone = FALSE
    /\ text = <<>>
    /\ maxLength = 1
    /\ lines = <<>>
    /\ splitDone = FALSE
    /\ PRINTER_NAME = Str(ZebraName)
    /\ received = FALSE
    /\ query = Undef
    /\ responses = <<>>
    /\ detect = "none"
    /\ jobStatus = <<>>
    /\ enumerated = <<>>
    /\ crashed = FALSE

CallUsePrinter ==
    /\ ~labelDone
    /\ labelRun' = UsePrinter(patientObj, Str(ZebraName))
    /\ labelDone' = TRUE
    /\ UNCHANGED <<patientObj, splitVars, serverVars>>

NextLabel == CallUsePrinter

SpecLabel == InitLabel /\ [][NextLabel]_vars
----------------------------------------------------------------------------
(* Specification SpecSplit: splitText applied to bounded arguments. *)

SplitAlphabet == {"a", " "}

\* the 47-character test-name string of the scenario
ScenarioText == [i \in 1..47 |-> IF i % 4 = 0 THEN " " ELSE "a"]

InitSplit ==
    /\ \/ /\ text \in StringsUpTo(SplitAlphabet, MaxLen)
          /\ maxLength \in 1..MaxWidth
       \/ /\ text \in {ScenarioText, <<>>}
          /\ maxLength \in {LineWidth, OldLineWidth}
    /\ lines = <<>>
    /\ splitDone = FALSE
    /\ patientObj = Undef
    /\ labelRun = NoRun
    /\ labelDone = FALSE
    /\ PRINTER_NAME = Str(ZebraName)
    /\ received = FALSE
    /\ query = Undef
    /\ responses = <<>>
    /\ detect = "none"
    /\ jobStatus = <<>>
    /\ enumerated = <<>>
    /\ crashed = FALSE

CallSplitText ==
    /\ ~splitDone
    /\ lines' = splitText(text, maxLength)
    /\ splitDone' = TRUE
    /\ UNCHANGED <<text, maxLength, labelVars, serverVars>>

NextSplit == CallSplitText

SpecSplit == InitSplit /\ [][NextSplit]_vars

----------------------------------------------------------------------------
(* Specification Spec: one POST / from its arrival to its last callback.   *)
(* Requests share no state but PRINTER_NAME, which is never written.  The  *)
(* callbacks handed to getPrinters and printDirect run after the handler   *)
(* has returned ("Return immediately (printing happens asynchronously)",   *)
(* line 375).                                                              *)

HP == <<"H", "P">>
Lab1 == <<"L", "A", "B", "1">>
QueuePrinter == <<"Q">>
ZDesigner == <<"Z", "D", "8", "8", "8", " ", "x">>
ZebraTwo == <<"Z", "e", "b", "r", "a", " ", "2">>

\* process.env.PRINTER_NAME
EnvPrinterNames == {Undef, Str(<<>>), Str(Lab1)}

\* what getPrinters hands to its callback: (err, printers)
GetPrintersOutcomes ==
    {[err |-> Str(<<"E">>), printers |-> Undef],
     [err |-> Null, printers |-> Undef],
     [err |-> Null, printers |-> Arr(<<>>)],
     [err |-> Null, printers |-> Arr(<<Obj([name |-> Str(HP)])>>)],
     [err |-> Null, printers |-> Arr(<<Obj([name |-> Str(HP)]),
                                       Obj([name |-> Str(ZDesigner)])>>)],
     [err |-> Null, printers |-> Arr(<<Obj([name |-> Str(ZebraTwo)]),
                                       Obj([name |-> Str(ZDesigner)])>>)]}

\* the kinds of request of the server runs
ServerReqKinds ==
    {Req(<<"a">>, Cont7), Req(<<"a">>, Cont7Again), Req(<<"b">>, Cont8),
     Req(<<"a">>, ContZero), Req(<<"a">>, ContNoId), Obj([name |-> Str(<<"a">>)])}

\* what a payload carries where the request list is expected
ListValues ==
    {Undef, Null, Str(<<"x">>), Obj([name |-> Str(<<"a">>)])}
    \cup {Arr(rs) : rs \in RequestLists(ServerReqKinds, MaxLabRequests)}

\* request bodies: the list at the top level or under patient, the
\* identifiers present or not, the visit number a string or a number
ServerPayloads ==
    {Obj([visit_number |-> vn, id |-> id, printer_name |-> pn, lab_requests |-> lv]) :
        vn \in {Undef, Str(V1), Num(<<"5">>)}, id \in {Undef, Str(P1)},
        pn \in {Undef, Str(Lab1)}, lv \in ListValues}
    \cup
    {Obj([visit_number |-> vn, printer_name |-> pn,
          patient |-> Obj([id |-> Str(P1), labRequests |-> lv])]) :
        vn \in {Undef, Str(V1)}, pn \in {Undef, Str(Lab1)}, lv \in ListValues}

\* req.body: undefined when the request carries none
Bodies == {Undef} \cup ServerPayloads

\* req.query
Queries ==
    {Obj([printer_name |-> pn]) : pn \in {Undef, Str(<<>>), Str(QueuePrinter)}}

Init ==
    /\ \E env \in EnvPrinterNames : PRINTER_NAME = Or(env, Str(ZebraName))
    /\ received = FALSE
    /\ patientObj = Undef
    /\ query = Undef
    /\ responses = <<>>
    /\ detect = "none"
    /\ labelRun = NoRun
    /\ labelDone = FALSE
    /\ jobStatus = <<>>
    /\ enumerated = <<>>
    /\ crashed = FALSE
    /\ text = <<>>
    /\ maxLength = 1
    /\ lines = <<>>
    /\ splitDone = FALSE

\* usePrinter(printerName) called by printLabel within the handler (an
\* override is given): every print job is handed to printDirect, whose
\* callbacks run after the handler has returned; an exception reaches the
\* catch of the handler
UsePrinterInHandler(data, printerName) ==
    LET run == UsePrinter(data, printerName)
    IN  /\ labelRun' = run
        /\ labelDone' = TRUE
        /\ jobStatus' = [i \in 1..Len(run.jobs) |-> "pending"]
        /\ responses' = Append(responses, Respond(run.exit, printerName))

\* POST / with body data and query q: the whole handler
Post ==
    /\ ~received
    /\ \E data \in Bodies, q \in Queries :
        /\ received' = TRUE
        /\ patientObj' = data
        /\ query' = q
        /\ IF ~Truthy(data)
           THEN /\ responses' = Append(responses, NoDataResponse)
                /\ UNCHANGED <<detect, labelRun, labelDone, jobStatus, crashed>>
           ELSE LET override == PrinterOverride(data, q)
                IN  IF Truthy(override)
                    THEN /\ UsePrinterInHandler(data, override)
                         /\ UNCHANGED <<detect, crashed>>
                    ELSE \* findZD888Printer: getPrinters calls back later
                         /\ detect' = "pending"
                         /\ responses' = Append(responses, Respond("none", override))
                         /\ UNCHANGED <<labelRun, labelDone, jobStatus, crashed>>
    /\ UNCHANGED <<PRINTER_NAME, enumerated, splitVars>>

\* the callback of getPrinters, called after the handler has returned: an
\* exception of usePrinter has no handler and ends the process
GetPrintersCallback ==
    /\ detect = "pending"
    /\ ~crashed
    /\ \E o \in GetPrintersOutcomes :
          LET run == UsePrinter(patientObj,
                         FindZD888Printer(o.err, o.printers, PRINTER_NAME))
          IN  /\ labelRun' = run
              /\ labelDone' = TRUE
              /\ jobStatus' = [i \in 1..Len(run.jobs) |-> "pending"]
              /\ crashed' = (run.exit = "threw")
              /\ enumerated' = <<o>>
    /\ detect' = "done"
    /\ UNCHANGED <<PRINTER_NAME, received, patientObj, query, responses, splitVars>>

\* the success callback of job i, lines 318-320: it logs
PrintSuccess(i) ==
    /\ ~crashed
    /\ jobStatus[i] = "pending"
    /\ jobStatus' = [jobStatus EXCEPT ![i] = "success"]
    /\ UNCHANGED <<PRINTER_NAME, received, patientObj, query, responses, detect,
                   labelRun, labelDone, enumerated, crashed, splitVars>>

\* the error callback of job i, lines 321-330: it logs, and lists the
\* printers for the log
PrintError(i) ==
    /\ ~crashed
    /\ jobStatus[i] = "pending"
    /\ jobStatus' = [jobStatus EXCEPT ![i] = "error"]
    /\ UNCHANGED <<PRINTER_NAME, received, patientObj, query, responses, detect,
                   labelRun, labelDone, enumerated, crashed, splitVars>>

Next ==
    \/ Post
    \/ GetPrintersCallback
    \/ \E i \in 1..Len(jobStatus) : PrintSuccess(i)
    \/ \E i \in 1..Len(jobStatus) : PrintError(i)

Spec == Init /\ [][Next]_vars

----------------------------------------------------------------------------
(* C1, C2: the text chunker. *)

CeilDiv(n, d) == (n + d - 1) \div d

\* C1: every chunk of splitText(s, w), w > 0, has length <= w, the chunks
\* concatenated in order give back s, and a non-empty s gives
\* ceil(len(s)/w) chunks.
C1_ChunksCoverText ==
    splitDone =>
        /\ \A i \in 1..Len(lines) : Len(lines[i]) <= maxLength
        /\ Concat(lines) = text
        /\ (text # <<>> => Len(lines) = CeilDiv(Len(text), maxLength))

\* C1 witness: the scenario, 47 characters at width 20 give chunks of
\* lengths 20, 20, 7.
C1_Witness ==
    /\ splitDone
    /\ Len(text) = 47
    /\ maxLength = 20
    /\ [i \in 1..Len(lines) |-> Len(lines[i])] = <<20, 20, 7>>

\* C2 as claimed: the empty string gives exactly one element, the empty
\* string.
C2_EmptyGivesOneEmptyChunk ==
    (splitDone /\ text = <<>>) => lines = << <<>> >>

\* C2 as amended: the empty string gives the empty array, no chunk at all
\* (the loop body never runs), whatever the width.
C2_EmptyGivesNoChunk ==
    (splitDone /\ text = <<>>) => lines = <<>>

\* C2 witness: splitText has returned for the empty string.
C2_Witness ==
    splitDone /\ text = <<>> /\ Len(lines) = 0

----------------------------------------------------------------------------
(* C3, C4, C5: the container groups, under SpecLabel. *)

\* the id a request resolves: that of its main test's container, undefined
\* when there is none
ResolvedId(req) == Get(ContainerOf(req), "id")

IsNullish(x) == x.t \in {"undefined", "null"}

\* the indexes of the requests that resolve id
MatchingRequests(lr, id) == {i \in 1..Len(lr) : ResolvedId(lr[i]) = id}

MinOf(S) == CHOOSE m \in S : \A x \in S : m <= x

\* usePrinter went as far as grouping
Grouped == labelDone /\ labelRun.exit \in {"noContainers", "printed"}

\* C3: the groups of uniqueContainers all have an id that is not null or
\* undefined, no two groups have the same id, and every group has at least
\* one test name.
C3_GroupIdsUnique ==
    Grouped =>
        LET u == labelRun.uniqueContainers
            g == labelRun.groups
        IN  /\ \A i \in 1..Len(u) : ~IsNullish(Get(u[i], "id"))
            /\ \A i, j \in 1..Len(u) : i # j => Get(u[i], "id") # Get(u[j], "id")
            /\ Len(g) = Len(u)
            /\ \A k \in 1..Len(g) :
                  /\ Get(g[k].container, "id") = Get(u[k], "id")
                  /\ Len(g[k].tests) >= 1

\* C3 witness: three requests carry containers, two of them the same id 7 as
\* separate objects, and two groups come out.
C3_Witness ==
    /\ Grouped
    /\ Len(labelRun.containers) = 3
    /\ Len(labelRun.uniqueContainers) = 2
    /\ \E i, j \in 1..3 :
          /\ i # j
          /\ Get(labelRun.containers[i], "id") = Get(labelRun.containers[j], "id")
          /\ DOMAIN labelRun.containers[i].v # DOMAIN labelRun.containers[j].v

\* C4: the groups come in the order in which their ids first occur in the
\* request list, and the names of a group are those of its requests, in the
\* order of the requests, one name per request (duplicates kept).
C4_OrderPreserved ==
    Grouped =>
        LET lr == labelRun.labRequests.v
            g == labelRun.groups
            idx(k) == MatchingRequests(lr, Get(g[k].container, "id"))
        IN  /\ \A k \in 1..Len(g) : idx(k) # {}
            /\ \A a, b \in 1..Len(g) :
                  (a < b /\ idx(a) # {} /\ idx(b) # {}) => MinOf(idx(a)) < MinOf(idx(b))
            /\ \A k \in 1..Len(g) :
                  /\ Len(g[k].tests) = Cardinality(idx(k))
                  /\ \A i \in idx(k) :
                        LET pos == Cardinality({j \in idx(k) : j <= i})
                        IN  pos <= Len(g[k].tests) /\ g[k].tests[pos] = TestNameOf(lr[i])

\* C4 witness: id 8 occurs before id 7, so its group comes first, and the
\* group of id 7 holds the name a twice, once for each of its two requests.
C4_Witness ==
    /\ Grouped
    /\ Len(labelRun.labRequests.v) = 3
    /\ Len(labelRun.groups) = 2
    /\ Get(labelRun.groups[1].container, "id") = Num(<<"8">>)
    /\ Get(labelRun.groups[2].container, "id") = Num(<<"7">>)
    /\ labelRun.groups[2].tests = <<Str(<<"a">>), Str(<<"a">>)>>

\* C5 as claimed: every request whose container id is present and not null
\* has its name in exactly one group, that of its id; a request without
\* container or id is in no group; no request with an id is dropped.
C5_NoRequestDropped ==
    Grouped =>
        LET lr == labelRun.labRequests.v
            g == labelRun.groups
            holding(id) == {k \in 1..Len(g) : Get(g[k].container, "id") = id}
        IN  \A i \in 1..Len(lr) :
                IF IsNullish(ResolvedId(lr[i]))
                THEN holding(ResolvedId(lr[i])) = {}
                ELSE /\ Cardinality(holding(ResolvedId(lr[i]))) = 1
                     /\ \A k \in holding(ResolvedId(lr[i])) :
                           \E n \in 1..Len(g[k].tests) : g[k].tests[n] = TestNameOf(lr[i])

----------------------------------------------------------------------------
(* C10: the identifiers on the label, under SpecLabel. *)

\* the first value of a list of aliases that is truthy, else undefined
RECURSIVE FirstTruthy(_)
FirstTruthy(aliases) ==
    IF aliases = <<>> THEN Undef
    ELSE IF Truthy(Head(aliases)) THEN Head(aliases)
    ELSE FirstTruthy(Tail(aliases))

\* the visit number and the patient id of a payload, by the priority of
\* their aliases; an identifier that is undefined, null, empty or 0 counts
\* as absent
VisitNumber(po) ==
    FirstTruthy(<<Get(PatientOf(po), "visit_number"), Get(po, "visit_number"),
                  Get(po, "visit_id")>>)

PatientId(po) ==
    FirstTruthy(<<Get(po, "id"), Get(po, "patient_id"), Get(PatientOf(po), "id")>>)

\* C10 as claimed: composition never fails on the identifiers; the header
\* text holds the visit number, or "N/A" when it is absent, and the one
\* barcode encodes the patient id, else the visit number, else "0".
C10_IdentifiersOnLabel ==
    (labelDone /\ Len(labelRun.uniqueContainers) > 0) =>
        /\ labelRun.exit = "printed"
        /\ Len(labelRun.jobs) = Len(labelRun.uniqueContainers)
        /\ \A k \in 1..Len(labelRun.jobs) :
              LET prims == labelRun.jobs[k].data.prims
                  vn == VisitNumber(patientObj)
                  pid == PatientId(patientObj)
                  codes == {i \in 1..Len(prims) : prims[i].cmd = "barcode"}
              IN  /\ prims[2].cmd = "text"
                  /\ prims[2].fd = IF Truthy(vn) THEN Escape(ToStr(vn)) ELSE NA
                  /\ Cardinality(codes) = 1
                  /\ \A i \in codes :
                        prims[i].fd = IF Truthy(pid) THEN ToStr(pid)
                                      ELSE IF Truthy(vn) THEN ToStr(vn)
                                      ELSE Zero

----------------------------------------------------------------------------
(* C6, C7, C8, C9: the request and its print jobs, under Spec. *)

\* the request has arrived with a body
Accepted == received /\ Truthy(patientObj)

\* no label was composed and nothing was handed to printDirect
NothingPrinted ==
    /\ labelRun.groups = <<>>
    /\ labelRun.jobs = <<>>
    /\ jobStatus = <<>>

\* the request was answered once, with status 'success'
AnsweredSuccess ==
    /\ Len(responses) = 1
    /\ responses[1].code = 200
    /\ responses[1].status = "success"

\* the payload carries a request list, none of whose requests resolves a
\* container id
NoContainerIds(po) ==
    /\ IsArray(LabRequestsOf(po))
    /\ \A i \in 1..Len(LabRequestsOf(po).v) : IsNullish(ResolvedId(LabRequestsOf(po).v[i]))

\* C6: if no lab request of the payload resolves a container id, there is no
\* group, no label is composed, printDirect is never called, and the caller
\* is answered with success, not with an error.
C6_NoContainersNoPrint ==
    (Accepted /\ NoContainerIds(patientObj)) =>
        /\ NothingPrinted
        /\ labelRun.uniqueContainers = <<>>
        /\ AnsweredSuccess
        /\ ~crashed

\* C6 witness: usePrinter has run on a list of two requests, one without
\* main test and one whose container has no id, and returned at the check
\* for valid containers; the caller has its answer.
C6_Witness ==
    /\ Accepted
    /\ NoContainerIds(patientObj)
    /\ labelDone
    /\ labelRun.exit = "noContainers"
    /\ Len(labelRun.labRequests.v) = 2
    /\ \E i \in 1..2 : Truthy(ContainerOf(labelRun.labRequests.v[i]))
    /\ AnsweredSuccess

\* the payload has no request list under any alias, or a value that is
\* no array where the list is read
Malformed(po) ==
    \/ ~IsArray(LabRequestsOf(po))
    \/ /\ IsNullish(Get(po, "lab_requests"))
       /\ IsNullish(Get(PatientOf(po), "lab_requests"))
       /\ IsNullish(Get(po, "labRequests"))
       /\ IsNullish(Get(PatientOf(po), "labRequests"))

\* C7 as claimed: a payload without request list, or with a non-sequence
\* in its place, is answered with a client error, and nothing is composed
\* or printed.
C7_MalformedIsClientError ==
    (Accepted /\ Malformed(patientObj)) =>
        /\ NothingPrinted
        /\ Len(responses) = 1
        /\ responses[1].code \in 400..499

\* C7 as amended: such a payload is answered with status 'success' (only a
\* request without body is answered with a client error), and nothing is
\* composed or printed.
C7_MalformedIsAcknowledged ==
    (Accepted /\ Malformed(patientObj)) =>
        /\ NothingPrinted
        /\ AnsweredSuccess
        /\ labelDone => labelRun.exit = "noRequests"

\* C7 witness: usePrinter has returned at its first check for a payload
\* whose lab_requests is a string, and the answer is success.
C7_Witness ==
    /\ Accepted
    /\ Get(patientObj, "lab_requests").t = "string"
    /\ labelDone
    /\ labelRun.exit = "noRequests"
    /\ NothingPrinted
    /\ AnsweredSuccess

\* C8 as claimed: once usePrinter has run for a request with N container
\* groups there are N print jobs, one per group and in the order of the
\* groups, whatever the state of the other jobs; none is withdrawn or added
\* by a callback.
C8_OneSubmissionPerGroup ==
    labelDone =>
        /\ Len(labelRun.jobs) = Len(labelRun.uniqueContainers)
        /\ Len(jobStatus) = Len(labelRun.uniqueContainers)
        /\ \A k \in 1..Len(labelRun.jobs) :
              labelRun.jobs[k].container = Get(labelRun.uniqueContainers[k], "id")

\* C9 as claimed: a request with a body is answered exactly once, with
\* status 'success', before or after any callback and whatever the
\* callbacks report.
C9_AcknowledgedOnce ==
    Accepted => AnsweredSuccess

----------------------------------------------------------------------------
(* C11: the printer name of the print jobs, under Spec. *)

\* the device keywords
Keywords == {ZD888, ZebraName}

\* a and b are the same character, or the two cases of one letter
SameLetter(a, b) ==
    a = b \/ \E k \in 1..Len(UpperCase) : {a, b} = {UpperCase[k], LowerCase[k]}

\* name holds a device keyword somewhere, in whatever case
ContainsKeyword(name) ==
    \E kw \in Keywords : \E i \in 0..(Len(name) - Len(kw)) :
        \A k \in 1..Len(kw) : SameLetter(name[i + k], kw[k])

\* a printer name was supplied: a string that is not empty
Given(x) == ~IsNullish(x) /\ x # Str(<<>>)

\* the names of the enumerated printers that hold a device keyword; none
\* when getPrinters has not called back, reported an error or handed no list
MatchingPrinterNames ==
    IF enumerated = <<>> THEN {}
    ELSE IF ~IsNullish(enumerated[1].err) \/ ~IsArray(enumerated[1].printers)
    THEN {}
    ELSE {Get(enumerated[1].printers.v[i], "name") :
            i \in {j \in 1..Len(enumerated[1].printers.v) :
                      ContainsKeyword(Get(enumerated[1].printers.v[j], "name").v)}}

\* the printer names the priority allows for the request
AllowedPrinterNames ==
    LET body == Get(patientObj, "printer_name")
        q == Get(query, "printer_name")
    IN  IF Given(body) THEN {body}
        ELSE IF Given(q) THEN {q}
        ELSE IF MatchingPrinterNames # {} THEN MatchingPrinterNames
        ELSE {PRINTER_NAME}

\* C11: every print job of a request names the override when one is given
\* (that of the body before that of the query), else an enumerated printer
\* whose name holds 'zd888' or 'zebra' in any case, else PRINTER_NAME when
\* there is no match, an error or no list; the name is never empty, every
\* job of the request has the same one, getPrinters is asked only without
\* an override, and usePrinter runs whatever getPrinters hands back.
C11_PrinterByPriority ==
    /\ labelDone =>
          /\ \A k \in 1..Len(labelRun.jobs) :
                /\ labelRun.jobs[k].printer \in AllowedPrinterNames
                /\ Given(labelRun.jobs[k].printer)
          /\ \A j, k \in 1..Len(labelRun.jobs) :
                labelRun.jobs[j].printer = labelRun.jobs[k].printer
    /\ Accepted =>
          IF Given(Get(patientObj, "printer_name")) \/ Given(Get(query, "printer_name"))
          THEN labelDone /\ detect = "none" /\ enumerated = <<>>
          ELSE detect # "none" /\ (detect = "done" <=> labelDone)
                               /\ (detect = "done" <=> enumerated # <<>>)

\* C11 witness: without an override and with PRINTER_NAME set to LAB1,
\* getPrinters lists HP before "ZD888 x", and the two print jobs of the
\* request both name "ZD888 x".
C11_Witness ==
    /\ Accepted
    /\ detect = "done"
    /\ PRINTER_NAME = Str(Lab1)
    /\ enumerated # <<>>
    /\ enumerated[1].printers =
          Arr(<<Obj([name |-> Str(HP)]), Obj([name |-> Str(ZDesigner)])>>)
    /\ Len(labelRun.jobs) = 2
    /\ \A k \in 1..2 : labelRun.jobs[k].printer = Str(ZDesigner)

----------------------------------------------------------------------------
(* C12: the aliases of a field, under SpecLabel. *)

\* the first value of a list of aliases that is present and not null, else
\* the placeholder
RECURSIVE FirstPresent(_, _)
FirstPresent(aliases, placeholder) ==
    IF aliases = <<>> THEN placeholder
    ELSE IF ~IsNullish(Head(aliases)) THEN Head(aliases)
    ELSE FirstPresent(Tail(aliases), placeholder)

\* a resolved value is the expected one; a field no alias gives is null
\* or undefined
ResolvesTo(value, expected) ==
    IF IsNullish(expected) THEN IsNullish(value) ELSE value = expected

\* the name of the test of request req by the priority of its aliases
FirstPresentTestName(req) ==
    LET mainTest == FirstPresent(<<Get(req, "main_test"), Get(req, "mainTest")>>, Undef)
    IN  FirstPresent(<<Get(mainTest, "main_test_name"), Get(mainTest, "name"),
                       Get(req, "name"), Get(req, "test_name")>>, Str(UnknownTest))

\* C12 as claimed: the request list, the visit number, the patient id and
\* every test name on a label are the first of their aliases that is
\* present and not null; a later alias, or the placeholder, is used only
\* when every earlier alias is absent or null.
C12_FirstPresentAlias ==
    labelDone =>
        LET po == patientObj
            patient == FirstPresent(<<Get(po, "patient")>>, po)
            lr == labelRun.labRequests
            g == labelRun.groups
        IN  /\ ResolvesTo(lr,
                  FirstPresent(<<Get(po, "lab_requests"), Get(patient, "lab_requests"),
                                 Get(po, "labRequests"), Get(patient, "labRequests")>>,
                               Arr(<<>>)))
            /\ ResolvesTo(VisitNoOf(po),
                  FirstPresent(<<Get(patient, "visit_number"), Get(po, "visit_number"),
                                 Get(po, "visit_id")>>, Undef))
            /\ ResolvesTo(PidOf(po),
                  FirstPresent(<<Get(po, "id"), Get(po, "patient_id"),
                                 Get(patient, "id")>>, Undef))
            /\ \A k \in 1..Len(g) :
                  LET idx == MatchingRequests(lr.v, Get(g[k].container, "id"))
                  IN  \A i \in idx :
                        LET pos == Cardinality({j \in idx : j <= i})
                        IN  pos <= Len(g[k].tests)
                            => g[k].tests[pos] = FirstPresentTestName(lr.v[i])

----------------------------------------------------------------------------
(* C13: the acknowledgement and the composition of the labels, under Spec. *)

\* the payload has at least one valid container group: a request list with
\* a request whose container id is not undefined, null, 0 or empty
HasValidGroup(po) ==
    /\ IsArray(LabRequestsOf(po))
    /\ \E i \in 1..Len(LabRequestsOf(po).v) : Truthy(ResolvedId(LabRequestsOf(po).v[i]))

\* a response with status 'success' has been sent
SuccessSent ==
    \E n \in 1..Len(responses) : responses[n].status = "success"

\* C13 as claimed: for a request with at least one valid container group,
\* the success response is sent only once usePrinter has composed the
\* label of every group and handed it to printDirect, with a printer
\* override and with auto-detection alike.
C13_ComposedBeforeSuccess ==
    (Accepted /\ HasValidGroup(patientObj) /\ SuccessSent) =>
        /\ labelDone
        /\ labelRun.exit = "printed"
        /\ Len(labelRun.groups) >= 1
        /\ Len(labelRun.jobs) = Len(labelRun.groups)
        /\ Len(jobStatus) = Len(labelRun.jobs)

====
